---- MODULE Spec2Model ----
\* Model of src/app.py: the value resolver / result builder
\* (extract_data_from_elements), the three scrape handlers
\* (scrape_beautifulsoup, scrape_selenium, scrape_auto) and export_csv.
EXTENDS Integers, Sequences, FiniteSets, TLC

\* ---------------------------------------------------------------- bounds
MaxStrLen == 2
MaxElems == 2
MaxRequests == 2

\* ---------------------------------------------------------------- strings
\* Text is a sequence of characters; " " stands for every whitespace
\* character str.strip() removes, "a" for every other character.
Chars == {" ", "a"}

RECURSIVE StrsOfLen(_)
StrsOfLen(n) ==
    IF n = 0 THEN {<<>>}
    ELSE {Append(s, c) : s \in StrsOfLen(n - 1), c \in Chars}

Strs == UNION {StrsOfLen(n) : n \in 0..MaxStrLen}

RECURSIVE LStrip(_)
LStrip(s) ==
    IF s = <<>> THEN <<>>
    ELSE IF Head(s) = " " THEN LStrip(Tail(s))
    ELSE s

RECURSIVE RStrip(_)
RStrip(s) ==
    IF s = <<>> THEN <<>>
    ELSE IF s[Len(s)] = " " THEN RStrip(SubSeq(s, 1, Len(s) - 1))
    ELSE s

\* str.strip()
Strip(s) == RStrip(LStrip(s))

\* ---------------------------------------------------------------- values
\* A Python value as read from an element: None, a str, or a list of tokens
\* (BeautifulSoup returns multi-valued attributes such as class as a list).
NoneVal == [k |-> "none", s |-> <<>>, l |-> <<>>]
StrVal(s) == [k |-> "str", s |-> s, l |-> <<>>]
ListVal(l) == [k |-> "list", s |-> <<>>, l |-> l]

\* Python truthiness: `not value` holds of None, "" and [].
Truthy(v) ==
    CASE v.k = "none" -> FALSE
      [] v.k = "str" -> v.s # <<>>
      [] OTHER -> v.l # <<>>

\* " ".join(tokens)
RECURSIVE Join(_)
Join(l) ==
    IF l = <<>> THEN <<>>
    ELSE IF Len(l) = 1 THEN l[1]
    ELSE l[1] \o <<" ">> \o Join(Tail(l))

\* repr of a list of str: ['a', 'b']
RECURSIVE ReprItems(_)
ReprItems(l) ==
    IF l = <<>> THEN <<>>
    ELSE IF Len(l) = 1 THEN <<"'">> \o l[1] \o <<"'">>
    ELSE <<"'">> \o l[1] \o <<"'", ",", " ">> \o ReprItems(Tail(l))

\* str(value) for a value that is not None
PyStr(v) ==
    IF v.k = "list" THEN <<"[">> \o ReprItems(v.l) \o <<"]">>
    ELSE v.s

\* ---------------------------------------------------------------- attribute names
TextAttrs == {"Text Content", "text content"}
HtmlAttrs == {"class", "Class", "data-x"}
\* "attribute": null in the request body (data.get returns None)
NoneAttr == "<None>"
Attributes == TextAttrs \cup HtmlAttrs \cup {NoneAttr}

\* attribute.lower()
Lower(a) ==
    CASE a \in TextAttrs -> "text content"
      [] a \in {"class", "Class"} -> "class"
      [] OTHER -> a

\* ---------------------------------------------------------------- elements
\* A matched element is what its accessors return: text (el.text / get_text),
\* attr (el.get_attribute / el.get of the requested name), prop
\* (el.get_property), and whether the accessors raise (fault).
Elem(t, a, p, f) == [text |-> t, attr |-> a, prop |-> p, fault |-> f]

TokenLists == {<<>>, << <<"a">> >>, << <<"a">>, <<"a">> >>}
AttrVals == {NoneVal} \cup {StrVal(s) : s \in Strs} \cup {ListVal(l) : l \in TokenLists}
PropVals == {NoneVal, StrVal(<<>>), StrVal(<<"a">>)}

FaultyElem == Elem(<<"a">>, StrVal(<<"a">>), NoneVal, TRUE)

\* The elements a call can tell apart: a call reads text only when the
\* attribute is the text-content sentinel, get_property only under selenium,
\* and only BeautifulSoup yields token lists; the accessors a call does not
\* read are held at a default.
ElementsFor(attribute, method) ==
    {FaultyElem} \cup
    (IF attribute = NoneAttr THEN {Elem(<<"a">>, StrVal(<<"a">>), NoneVal, FALSE)}
     ELSE IF attribute \in TextAttrs
          THEN {Elem(t, NoneVal, NoneVal, FALSE) : t \in Strs}
     ELSE IF method = "selenium"
          THEN {Elem(<<>>, a, p, FALSE) :
                    a \in {v \in AttrVals : v.k # "list"}, p \in PropVals}
     ELSE {Elem(<<>>, a, NoneVal, FALSE) : a \in AttrVals})

RECURSIVE SeqsOfLen(_, _)
SeqsOfLen(S, n) ==
    IF n = 0 THEN {<<>>}
    ELSE {Append(q, x) : q \in SeqsOfLen(S, n - 1), x \in S}

BSeq(S, n) == UNION {SeqsOfLen(S, i) : i \in 0..n}

\* ---------------------------------------------------------------- extract_data_from_elements
Methods == {"selenium", "beautifulsoup"}

\* An emitted value: a real string or one of the three placeholders, which
\* carry the attribute name as requested.
RealValue(s) == [kind |-> "value", s |-> s, attribute |-> ""]
Placeholder(kind, attribute) == [kind |-> kind, s |-> <<>>, attribute |-> attribute]

\* Whether the try block raises for this element (lines 45-64): an accessor
\* raises, or attribute is None and attribute.lower() raises.
Raises(el, attribute) == el.fault \/ attribute = NoneAttr

\* The value of `value` at line 67, for an element whose reads do not raise.
ResolveValue(el, attribute, method) ==
    IF method = "selenium" THEN
        IF Lower(attribute) = "text content" THEN StrVal(Strip(el.text))
        ELSE IF ~Truthy(el.attr) THEN el.prop
        ELSE el.attr
    ELSE
        IF Lower(attribute) = "text content" THEN StrVal(Strip(el.text))
        ELSE IF Lower(attribute) = "class" /\ el.attr.k = "list"
             THEN StrVal(Join(el.attr.l))
        ELSE el.attr

\* Lines 67-88: the value emitted for one element.
EmitValue(el, attribute, method) ==
    IF Raises(el, attribute) THEN Placeholder("Error", attribute)
    ELSE LET value == ResolveValue(el, attribute, method) IN
         IF value.k # "none" THEN
             LET value_str == Strip(PyStr(value)) IN
             IF value_str # <<>> THEN RealValue(value_str)
             ELSE Placeholder("Empty", attribute)
         ELSE Placeholder("No", attribute)

\* Mutant: the except clause only logs and continues, appending nothing.
ExtractOne_DropsFaulty(results, el, attribute, method) ==
    IF Raises(el, attribute) THEN results
    ELSE Append(results, [value |-> EmitValue(el, attribute, method),
                          index |-> Len(results) + 1])

\* One iteration of the loop: exactly one append, index len(results) + 1.
ExtractOne(results, el, attribute, method) ==
    Append(results, [value |-> EmitValue(el, attribute, method),
                     index |-> Len(results) + 1])

RECURSIVE ExtractLoop(_, _, _, _)
ExtractLoop(results, elements, attribute, method) ==
    IF elements = <<>> THEN results
    ELSE ExtractLoop(ExtractOne(results, Head(elements), attribute, method),
                     Tail(elements), attribute, method)

extract_data_from_elements(elements, attribute, method) ==
    ExtractLoop(<<>>, elements, attribute, method)

\* ---------------------------------------------------------------- state
VARIABLES
    endpoint,           \* the route being served: "none", "bs", "selenium", "auto"
    pc,                 \* position inside the handler
    request,            \* request.json: url, selector, attribute
    driver,             \* scrape_selenium's local `driver`: "None", "open", "quit"
    selenium_elements,  \* handles returned by driver.find_elements
    pending,            \* what scrape_selenium's try/except returns, held while finally runs
    bs_data,            \* scrape_auto: the static handler's response
    selenium_data,      \* scrape_auto: the rendered handler's response
    response,           \* what the caller of the route receives
    steps,              \* the steps of the request in flight, in order
    openSessions,       \* browser sessions created and not yet quit
    waitTimedOut,       \* the WebDriverWait of this request raised TimeoutException
    staleRead,          \* an element handle was read while its session was not open
    nreq,               \* requests received so far
    fnArgs,             \* arguments of a direct call (extract / export_csv)
    fnRet               \* its return value

vars == <<endpoint, pc, request, driver, selenium_elements, pending, bs_data,
          selenium_data, response, steps, openSessions, waitTimedOut, staleRead,
          nreq, fnArgs, fnRet>>

\* ---------------------------------------------------------------- responses
NoResp ==
    [status |-> "none", success |-> FALSE, method |-> "", results |-> <<>>,
     total_found |-> 0, has_results |-> FALSE, error |-> "none"]

\* jsonify({"success": True, "results": ..., "method": ..., "total_found": len(results)})
Success(method, results) ==
    [status |-> "json", success |-> TRUE, method |-> method, results |-> results,
     total_found |-> Len(results), has_results |-> TRUE, error |-> "none"]

\* jsonify({"success": False, "error": ..., "method": ...})
Failure(method, error) ==
    [status |-> "json", success |-> FALSE, method |-> method, results |-> <<>>,
     total_found |-> 0, has_results |-> FALSE, error |-> error]

\* An exception leaves the route function: no response object is produced.
Unhandled ==
    [status |-> "raised", success |-> FALSE, method |-> "", results |-> <<>>,
     total_found |-> 0, has_results |-> FALSE, error |-> "exception"]

\* ---------------------------------------------------------------- requests
\* The body of a request is a JSON object (request.json is a dict).
\* url: "valid" is a syntactically valid absolute URL, "invalid" anything else
\* (a missing url, a relative path, free text).  selector: "none" is absent,
\* "empty" is "", "ok" a well-formed CSS selector, "bad" a malformed one.
Urls == {"valid", "invalid"}
Selectors == {"none", "empty", "ok", "bad"}
Requests == [url : Urls, selector : Selectors, attribute : Attributes]
NoRequest == [url |-> "valid", selector |-> "none", attribute |-> NoneAttr]

\* The documents a fetch can return: a real value, a blank one, an absent
\* attribute, an empty attribute with no DOM property, and a faulting handle.
PageElems ==
    {Elem(<<"a">>, StrVal(<<"a">>), NoneVal, FALSE),
     Elem(<<" ">>, StrVal(<<" ">>), NoneVal, FALSE),
     Elem(<<>>, StrVal(<<>>), NoneVal, FALSE),
     Elem(<<>>, NoneVal, NoneVal, FALSE),
     FaultyElem}
Pages == BSeq(PageElems, MaxElems)

Init ==
    /\ endpoint = "none"
    /\ pc = "idle"
    /\ request = NoRequest
    /\ driver = "None"
    /\ selenium_elements = <<>>
    /\ pending = NoResp
    /\ bs_data = NoResp
    /\ selenium_data = NoResp
    /\ response = NoResp
    /\ steps = <<>>
    /\ openSessions = 0
    /\ waitTimedOut = FALSE
    /\ staleRead = FALSE
    /\ nreq = 0
    /\ fnArgs = <<>>
    /\ fnRet = <<>>

\* A request arrives at one of the three routes; every local of the handler
\* starts fresh.  The direct routes enter their handler at once.
Receive ==
    /\ pc = "idle"
    /\ nreq < MaxRequests
    /\ \E e \in {"bs", "selenium", "auto"}, r \in Requests :
        /\ endpoint' = e
        /\ request' = r
        /\ pc' = CASE e = "bs" -> "bs_get"
                   [] e = "selenium" -> "sel_setup"
                   [] OTHER -> "auto_start"
        /\ steps' = CASE e = "bs" -> <<"static">>
                      [] e = "selenium" -> <<"rendered">>
                      [] OTHER -> <<>>
    /\ driver' = "None"
    /\ selenium_elements' = <<>>
    /\ pending' = NoResp
    /\ bs_data' = NoResp
    /\ selenium_data' = NoResp
    /\ response' = NoResp
    /\ waitTimedOut' = FALSE
    /\ staleRead' = FALSE
    /\ nreq' = nreq + 1
    /\ UNCHANGED <<openSessions, fnArgs, fnRet>>

\* ---------------------------------------------------------------- scrape_beautifulsoup
\* The handler returns `result`: to the client, or to scrape_auto (line 213).
BsReturn(result) ==
    IF endpoint = "auto"
    THEN /\ bs_data' = result
         /\ pc' = "auto_check"
         /\ UNCHANGED response
    ELSE /\ response' = result
         /\ pc' = "idle"
         /\ UNCHANGED bs_data

\* Lines 118-119: requests.get and raise_for_status.  requests rejects a url
\* that is not an absolute http(s) URL before sending anything (MissingSchema,
\* InvalidSchema, InvalidURL: all RequestException); a valid one is sent and
\* may fail (transport, timeout, non-2xx).
BsGet ==
    /\ pc = "bs_get"
    /\ \/ /\ request.url = "valid"
          /\ steps' = Append(steps, "http_get")
          /\ pc' = "bs_parse"
          /\ UNCHANGED <<bs_data, response>>
       \/ /\ request.url = "valid"
          /\ steps' = steps \o <<"http_get", "!network">>
          /\ BsReturn(Failure("Beautiful Soup", "Network error"))
       \/ /\ request.url = "invalid"
          /\ steps' = Append(steps, "!network")
          /\ BsReturn(Failure("Beautiful Soup", "Network error"))
    /\ UNCHANGED <<endpoint, request, driver, selenium_elements, pending,
                   selenium_data, openSessions, waitTimedOut, staleRead, nreq,
                   fnArgs, fnRet>>

\* Lines 121-133: parse, select (no selector: no elements; a malformed one
\* raises), build the results, return success.
BsParse ==
    /\ pc = "bs_parse"
    /\ \/ /\ request.selector \in {"none", "empty"}
          /\ steps' = steps
          /\ BsReturn(Success("Beautiful Soup",
                 extract_data_from_elements(<<>>, request.attribute, "beautifulsoup")))
       \/ /\ request.selector = "ok"
          /\ steps' = steps
          /\ \E elements \in Pages :
                BsReturn(Success("Beautiful Soup",
                    extract_data_from_elements(elements, request.attribute,
                                               "beautifulsoup")))
       \/ /\ request.selector = "bad"
          /\ steps' = Append(steps, "!select")
          /\ BsReturn(Failure("Beautiful Soup", "error"))
    /\ UNCHANGED <<endpoint, request, driver, selenium_elements, pending,
                   selenium_data, openSessions, waitTimedOut, staleRead, nreq,
                   fnArgs, fnRet>>

\* ---------------------------------------------------------------- scrape_selenium
\* The two except clauses (lines 189-200).
SelFailure(kind) ==
    IF kind = "wd" THEN Failure("Selenium", "WebDriver error")
    ELSE Failure("Selenium", "error")

FaultKinds == {"wd", "other"}

selVarsKept == <<endpoint, request, bs_data, selenium_data, response, nreq,
                 fnArgs, fnRet>>

\* Line 162: driver = setup_chrome_driver().  On a fault no session exists and
\* driver stays None.
SelSetup ==
    /\ pc = "sel_setup"
    /\ \/ /\ driver' = "open"
          /\ openSessions' = openSessions + 1
          /\ steps' = Append(steps, "acquire")
          /\ pc' = "sel_get"
          /\ UNCHANGED pending
       \/ \E k \in FaultKinds :
          /\ steps' = steps \o <<"acquire", "!acquire">>
          /\ pending' = SelFailure(k)
          /\ pc' = "sel_finally"
          /\ UNCHANGED <<driver, openSessions>>
    /\ UNCHANGED <<selenium_elements, waitTimedOut, staleRead>>
    /\ UNCHANGED selVarsKept

\* Line 163: driver.get(url).  The browser rejects what is not a URL with a
\* WebDriverException; a valid URL may still fail to load.
SelGet ==
    /\ pc = "sel_get"
    /\ \/ /\ request.url = "valid"
          /\ steps' = Append(steps, "navigate")
          /\ pc' = "sel_wait"
          /\ UNCHANGED pending
       \/ \E k \in FaultKinds :
          /\ request.url = "valid" \/ k = "wd"
          /\ steps' = steps \o <<"navigate", "!navigate">>
          /\ pending' = SelFailure(k)
          /\ pc' = "sel_finally"
    /\ UNCHANGED <<driver, openSessions, selenium_elements, waitTimedOut,
                   staleRead>>
    /\ UNCHANGED selVarsKept

\* Mutant: TimeoutException is not caught around the wait and reaches the
\* WebDriverException clause.
SelWait_TimeoutFatal ==
    /\ pc = "sel_wait"
    /\ \/ /\ request.selector = "ok"
          /\ waitTimedOut' = FALSE
          /\ steps' = Append(steps, "wait")
          /\ pc' = "sel_sleep"
          /\ UNCHANGED pending
       \/ /\ request.selector = "ok"
          /\ waitTimedOut' = TRUE
          /\ steps' = Append(steps, "wait")
          /\ pending' = SelFailure("wd")
          /\ pc' = "sel_finally"
       \/ \E k \in FaultKinds :
          /\ steps' = steps \o <<"wait", "!wait">>
          /\ pending' = SelFailure(k)
          /\ pc' = "sel_finally"
          /\ UNCHANGED waitTimedOut
    /\ UNCHANGED <<driver, openSessions, selenium_elements, staleRead>>
    /\ UNCHANGED selVarsKept

\* Lines 166-171: the bounded wait.  TimeoutException is swallowed; any other
\* exception (always the case for an absent, empty or malformed selector)
\* leaves the try block.
SelWait ==
    /\ pc = "sel_wait"
    /\ \/ /\ request.selector = "ok"
          /\ \E timeout \in BOOLEAN : waitTimedOut' = timeout
          /\ steps' = Append(steps, "wait")
          /\ pc' = "sel_sleep"
          /\ UNCHANGED pending
       \/ \E k \in FaultKinds :
          /\ steps' = steps \o <<"wait", "!wait">>
          /\ pending' = SelFailure(k)
          /\ pc' = "sel_finally"
          /\ UNCHANGED waitTimedOut
    /\ UNCHANGED <<driver, openSessions, selenium_elements, staleRead>>
    /\ UNCHANGED selVarsKept

\* Line 174: time.sleep(2).
SelSleep ==
    /\ pc = "sel_sleep"
    /\ steps' = Append(steps, "settle")
    /\ pc' = "sel_find"
    /\ UNCHANGED <<driver, openSessions, selenium_elements, pending,
                   waitTimedOut, staleRead>>
    /\ UNCHANGED selVarsKept

\* Mutant: the session is quit right after the query, before the handles
\* are read.
SelFind_QuitsEarly ==
    /\ pc = "sel_find"
    /\ \/ /\ \E elements \in Pages : selenium_elements' = elements
          /\ steps' = steps \o <<"query", "release">>
          /\ driver' = "quit"
          /\ openSessions' = openSessions - 1
          /\ pc' = "sel_extract"
          /\ UNCHANGED pending
       \/ \E k \in FaultKinds :
          /\ steps' = steps \o <<"query", "!query">>
          /\ pending' = SelFailure(k)
          /\ pc' = "sel_finally"
          /\ UNCHANGED <<selenium_elements, driver, openSessions>>
    /\ UNCHANGED <<waitTimedOut, staleRead>>
    /\ UNCHANGED selVarsKept

\* Line 176: driver.find_elements.
SelFind ==
    /\ pc = "sel_find"
    /\ \/ /\ \E elements \in Pages : selenium_elements' = elements
          /\ steps' = Append(steps, "query")
          /\ pc' = "sel_extract"
          /\ UNCHANGED pending
       \/ \E k \in FaultKinds :
          /\ steps' = steps \o <<"query", "!query">>
          /\ pending' = SelFailure(k)
          /\ pc' = "sel_finally"
          /\ UNCHANGED selenium_elements
    /\ UNCHANGED <<driver, openSessions, waitTimedOut, staleRead>>
    /\ UNCHANGED selVarsKept

\* Lines 177-187: read every handle, build the success response.  The return
\* value is held until the finally clause has run.
SelExtract ==
    /\ pc = "sel_extract"
    /\ staleRead' = (staleRead \/ (selenium_elements # <<>> /\ driver # "open"))
    /\ steps' = Append(steps, "resolve")
    /\ pending' = Success("Selenium",
           extract_data_from_elements(selenium_elements, request.attribute,
                                      "selenium"))
    /\ pc' = "sel_finally"
    /\ UNCHANGED <<driver, openSessions, selenium_elements, waitTimedOut>>
    /\ UNCHANGED selVarsKept

\* What the caller of scrape_selenium gets when the function returns
\* `result`, or when an exception leaves it (raised).  Inside scrape_auto an
\* exception lands in the except clause of lines 229-234.
SelReturn(result, raised) ==
    IF endpoint = "auto"
    THEN IF raised
         THEN /\ response' = Failure("Auto", "error")
              /\ pc' = "idle"
              /\ UNCHANGED selenium_data
         ELSE /\ selenium_data' = result
              /\ pc' = "auto_relabel"
              /\ UNCHANGED response
    ELSE /\ response' = (IF raised THEN Unhandled ELSE result)
         /\ pc' = "idle"
         /\ UNCHANGED selenium_data

\* Mutant: driver.quit() sits at the end of the try block instead of in a
\* finally clause, so only the success path releases the session.
SelFinally_QuitOnSuccessOnly ==
    /\ pc = "sel_finally"
    /\ \/ /\ (driver = "None" \/ ~pending.success)
          /\ steps' = steps
          /\ SelReturn(pending, FALSE)
          /\ UNCHANGED <<driver, openSessions>>
       \/ /\ driver # "None" /\ pending.success
          /\ driver' = "quit"
          /\ openSessions' = openSessions - 1
          /\ steps' = Append(steps, "release")
          /\ SelReturn(pending, FALSE)
    /\ UNCHANGED <<endpoint, request, selenium_elements, pending, bs_data,
                   waitTimedOut, staleRead, nreq, fnArgs, fnRet>>

\* Lines 201-203: finally: if driver: driver.quit().  quit() is outside every
\* try with a handler, so an exception it raises replaces the pending return.
SelFinally ==
    /\ pc = "sel_finally"
    /\ \/ /\ driver = "None"
          /\ steps' = steps
          /\ SelReturn(pending, FALSE)
          /\ UNCHANGED <<driver, openSessions>>
       \/ /\ driver # "None"
          /\ driver' = "quit"
          /\ openSessions' = openSessions - 1
          /\ \/ /\ steps' = Append(steps, "release")
                /\ SelReturn(pending, FALSE)
             \/ /\ steps' = steps \o <<"release", "!release">>
                /\ SelReturn(pending, TRUE)
    /\ UNCHANGED <<endpoint, request, selenium_elements, pending, bs_data,
                   waitTimedOut, staleRead, nreq, fnArgs, fnRet>>

\* ---------------------------------------------------------------- scrape_auto
\* Lines 209-213: call the static handler.
AutoStart ==
    /\ pc = "auto_start"
    /\ steps' = Append(steps, "static")
    /\ pc' = "bs_get"
    /\ UNCHANGED <<endpoint, request, driver, selenium_elements, pending,
                   bs_data, selenium_data, response, openSessions,
                   waitTimedOut, staleRead, nreq, fnArgs, fnRet>>

\* Mutant: the match count is compared off by one.
AutoKeepsStatic_OffByOne == bs_data.success /\ bs_data.total_found > 1

\* Line 216: the static result is kept.
AutoKeepsStatic == bs_data.success /\ bs_data.total_found > 0

\* Lines 214-223: return the relabelled static result, or call the rendered
\* handler.
AutoCheck ==
    /\ pc = "auto_check"
    /\ IF AutoKeepsStatic
       THEN /\ response' = [bs_data EXCEPT !.method = "Beautiful Soup (Auto)"]
            /\ pc' = "idle"
            /\ steps' = steps
       ELSE /\ steps' = Append(steps, "rendered")
            /\ pc' = "sel_setup"
            /\ UNCHANGED response
    /\ UNCHANGED <<endpoint, request, driver, selenium_elements, pending,
                   bs_data, selenium_data, openSessions, waitTimedOut,
                   staleRead, nreq, fnArgs, fnRet>>

\* Lines 224-227: relabel and return the rendered result.
AutoRelabel ==
    /\ pc = "auto_relabel"
    /\ response' = [selenium_data EXCEPT !.method = "Selenium (Auto Fallback)"]
    /\ pc' = "idle"
    /\ UNCHANGED <<endpoint, request, driver, selenium_elements, pending,
                   bs_data, selenium_data, steps, openSessions, waitTimedOut,
                   staleRead, nreq, fnArgs, fnRet>>

Next ==
    \/ Receive
    \/ BsGet
    \/ BsParse
    \/ SelSetup
    \/ SelGet
    \/ SelWait
    \/ SelSleep
    \/ SelFind
    \/ SelExtract
    \/ SelFinally
    \/ AutoStart
    \/ AutoCheck
    \/ AutoRelabel

Spec == Init /\ [][Next]_vars

\* ---------------------------------------------------------------- properties of the handlers
Occ(x) == Cardinality({i \in DOMAIN steps : steps[i] = x})
Has(x) == \E i \in DOMAIN steps : steps[i] = x

\* The static attempt of the auto request came back unusable: a failure, or
\* a success with no match.
StaticUnusable ==
    /\ bs_data.status = "json"
    /\ ~(bs_data.success /\ bs_data.total_found >= 1)

\* C1: in an auto request the static strategy is invoked exactly once and
\* before anything else; when it succeeds with at least one result that result
\* is what the caller gets, labelled "Beautiful Soup (Auto)", and the rendered
\* strategy is never invoked and no browser session is created.
C1_StaticFirstAndKept ==
    endpoint = "auto" =>
        /\ pc # "auto_start" => (steps # <<>> /\ steps[1] = "static" /\ Occ("static") = 1)
        /\ pc = "auto_start" => steps = <<>>
        /\ (bs_data.status = "json" /\ bs_data.success /\ bs_data.total_found >= 1) =>
              /\ pc \in {"auto_check", "idle"}
              /\ ~Has("rendered") /\ ~Has("acquire")
              /\ driver = "None" /\ openSessions = 0
              /\ pc = "idle" =>
                    /\ response.status = "json" /\ response.success
                    /\ response.method = "Beautiful Soup (Auto)"
                    /\ response.results = bs_data.results
                    /\ response.total_found = bs_data.total_found

C1_Witness ==
    /\ endpoint = "auto" /\ pc = "idle"
    /\ response.method = "Beautiful Soup (Auto)"
    /\ response.total_found >= 1
    /\ steps = <<"static", "http_get">>

\* C2 (as claimed): an auto request whose static attempt failed or matched
\* nothing invokes the rendered strategy exactly once and answers with the
\* rendered strategy's outcome under the label "Selenium (Auto Fallback)".
C2_FallbackOutcome ==
    (endpoint = "auto" /\ pc = "idle" /\ StaticUnusable) =>
        /\ Occ("rendered") = 1 /\ Occ("acquire") = 1
        /\ selenium_data.status = "json"
        /\ response = [selenium_data EXCEPT !.method = "Selenium (Auto Fallback)"]

\* C2, outside the case of a raising driver.quit(): what still holds.
C2_FallbackUnlessReleaseFault ==
    (endpoint = "auto" /\ pc = "idle" /\ StaticUnusable /\ ~Has("!release")) =>
        /\ Occ("rendered") = 1 /\ Occ("acquire") = 1
        /\ selenium_data.status = "json"
        /\ response = [selenium_data EXCEPT !.method = "Selenium (Auto Fallback)"]

\* C3: when a rendered invocation has returned to its caller (and whenever no
\* rendered invocation is running) driver.quit() has been called on every
\* session that was created: none is open.
C3_NoSessionLeak ==
    pc \in {"idle", "auto_start", "bs_get", "bs_parse", "auto_check", "auto_relabel"} =>
        /\ openSessions = 0
        /\ driver # "open"
        /\ (Has("acquire") /\ ~Has("!acquire")) => (Occ("release") = 1 /\ driver = "quit")

C3_Witness ==
    /\ pc = "idle" /\ endpoint = "selenium"
    /\ Has("!wait") /\ Has("release") /\ driver = "quit" /\ nreq = MaxRequests
    /\ response.status = "json" /\ ~response.success

\* C5 (as claimed): after a timed-out wait the rendered invocation ends in a
\* success response without an error field.
C5_TimeoutYieldsSuccess ==
    (endpoint = "selenium" /\ pc = "idle" /\ waitTimedOut) =>
        /\ Has("settle") /\ Has("query")
        /\ response.status = "json" /\ response.success /\ response.error = "none"

\* C5 (amended): a timed-out wait is never itself fatal: the invocation goes on
\* to the settle delay and the query, and when the query raises nothing the try
\* block returns success with no error field and one record per element that
\* the query found.
C5_TimeoutNotFatal ==
    waitTimedOut =>
        /\ pc \in {"sel_sleep", "sel_find", "sel_extract", "sel_finally",
                   "auto_relabel", "idle"}
        /\ pc \in {"sel_finally", "auto_relabel", "idle"} =>
              /\ Has("settle") /\ Has("query")
              /\ pending.status = "json"
              /\ ~Has("!query") =>
                    pending = Success("Selenium",
                        extract_data_from_elements(selenium_elements,
                            request.attribute, "selenium"))
              /\ (~Has("!query") /\ ~Has("!release") /\ pc = "idle" /\ endpoint = "selenium")
                    => response = pending

C5_Witness ==
    /\ endpoint = "selenium" /\ pc = "idle" /\ waitTimedOut
    /\ response.status = "json" /\ response.success /\ response.error = "none"
    /\ response.total_found = 0 /\ Has("release")

\* C6 (as claimed): a network fault of the static strategy and a session
\* creation, navigation or release fault of the rendered strategy each end the
\* invocation in a failure response carrying an error and the strategy's
\* label; no exception leaves a route.
C6_FaultsBecomeFailureResults ==
    pc = "idle" =>
        /\ response.status # "raised"
        /\ (endpoint = "bs" /\ Has("!network")) =>
              response = Failure("Beautiful Soup", "Network error")
        /\ (endpoint = "auto" /\ Has("!network")) =>
              bs_data = Failure("Beautiful Soup", "Network error")
        /\ (endpoint = "selenium"
              /\ (Has("!acquire") \/ Has("!navigate") \/ Has("!release"))) =>
              /\ response.status = "json" /\ ~response.success
              /\ response.error # "none" /\ response.method = "Selenium"
        /\ (endpoint = "auto"
              /\ (Has("!acquire") \/ Has("!navigate") \/ Has("!release"))) =>
              /\ response.status = "json" /\ ~response.success
              /\ response.error # "none"
              /\ response.method = "Selenium (Auto Fallback)"

\* C6, outside the case of a raising driver.quit(): what still holds.
C6_FaultsUnlessReleaseFault ==
    (pc = "idle" /\ ~Has("!release")) => C6_FaultsBecomeFailureResults

\* C8 (as claimed): a request whose url is not a valid absolute URL causes no
\* HTTP GET, no browser session and no navigation.
C8_NoFetchForInvalidUrl ==
    (endpoint # "none" /\ request.url = "invalid") =>
        /\ ~Has("http_get")
        /\ ~Has("acquire")
        /\ ~Has("navigate")

\* The steps of the rendered invocation, in the order they were taken.
RenderedStepNames ==
    {"acquire", "navigate", "wait", "settle", "query", "resolve", "release"}
IsRenderedStep(x) == x \in RenderedStepNames
RenderedSteps == SelectSeq(steps, IsRenderedStep)
RenderedOrder ==
    <<"acquire", "navigate", "wait", "settle", "query", "resolve", "release">>

\* C10: the steps of a rendered invocation are taken in the fixed order
\* acquire, navigate, wait, settle, query, resolve, each at most once and none
\* skipped, with release as the last step, and no handle is read while its
\* session is not open.
C10_RenderedStepOrder ==
    /\ \A i \in DOMAIN RenderedSteps :
          \/ RenderedSteps[i] = RenderedOrder[i]
          \/ /\ RenderedSteps[i] = "release"
             /\ i = Len(RenderedSteps)
             /\ i >= 2
    /\ Len(RenderedSteps) <= 7
    /\ ~staleRead
    /\ Has("resolve") /\ pc = "sel_finally" => driver = "open"

C10_Witness ==
    /\ pc = "idle"
    /\ RenderedSteps = RenderedOrder
    /\ selenium_elements # <<>>
    /\ response.status = "json" /\ response.success

\* ---------------------------------------------------------------- direct calls of extract_data_from_elements
\* Everything but the call itself is at rest.
AtRest ==
    /\ endpoint = "none"
    /\ request = NoRequest
    /\ driver = "None"
    /\ selenium_elements = <<>>
    /\ pending = NoResp
    /\ bs_data = NoResp
    /\ selenium_data = NoResp
    /\ response = NoResp
    /\ steps = <<>>
    /\ openSessions = 0
    /\ waitTimedOut = FALSE
    /\ staleRead = FALSE
    /\ nreq = 0

restVars == <<endpoint, request, driver, selenium_elements, pending, bs_data,
              selenium_data, response, steps, openSessions, waitTimedOut,
              staleRead, nreq>>

\* A call's arguments: an attribute, a method and up to MaxElems elements.
InitExtract ==
    /\ AtRest
    /\ pc = "call"
    /\ \E a \in Attributes, m \in Methods, n \in 0..MaxElems :
          \E e \in [1..n -> ElementsFor(a, m)] :
             fnArgs = [elements |-> e, attribute |-> a, method |-> m]
    /\ fnRet = <<>>

ExtractCall ==
    /\ pc = "call"
    /\ fnRet' = extract_data_from_elements(fnArgs.elements, fnArgs.attribute,
                                           fnArgs.method)
    /\ pc' = "returned"
    /\ UNCHANGED fnArgs
    /\ UNCHANGED restVars

NextExtract == ExtractCall

SpecExtract == InitExtract /\ [][NextExtract]_vars

\* C4: the result has one record per input element, in input order, with
\* indices 1..N, whatever each element produced (a value or an Empty, No or
\* Error placeholder).
C4_OneRecordPerElement ==
    pc = "returned" =>
        /\ Len(fnRet) = Len(fnArgs.elements)
        /\ \A i \in DOMAIN fnRet :
              /\ fnRet[i].index = i
              /\ fnRet[i].value.kind \in {"value", "Empty", "No", "Error"}
              /\ fnRet[i].value =
                    EmitValue(fnArgs.elements[i], fnArgs.attribute, fnArgs.method)

C4_Witness ==
    /\ pc = "returned"
    /\ Len(fnRet) = 2
    /\ fnRet[1].value.kind = "Error" /\ fnRet[1].index = 1
    /\ fnRet[2].value.kind = "value" /\ fnRet[2].index = 2

\* The element's HTML attribute (or, for the text-content sentinel, its text)
\* is present and trims to the empty string.
TrimsToEmpty(el, attribute) ==
    IF Lower(attribute) = "text content" THEN Strip(el.text) = <<>>
    ELSE el.attr.k = "str" /\ Strip(el.attr.s) = <<>>

\* C7 (as claimed): in both modes an element whose text is blank, or whose
\* requested HTML attribute is present but empty or whitespace-only, is
\* emitted as exactly "[Empty <attribute>]" with the name as requested.
C7_EmptyPlaceholder ==
    pc = "returned" =>
        \A i \in DOMAIN fnArgs.elements :
            (~Raises(fnArgs.elements[i], fnArgs.attribute)
                /\ TrimsToEmpty(fnArgs.elements[i], fnArgs.attribute)) =>
              fnRet[i].value = Placeholder("Empty", fnArgs.attribute)

\* C7 in Static mode alone, where it holds.
C7_EmptyPlaceholderStatic ==
    (pc = "returned" /\ fnArgs.method = "beautifulsoup") => C7_EmptyPlaceholder

\* ---------------------------------------------------------------- export_csv
\* A cell is a sequence of characters: "a" stands for any plain run of text
\* (the column titles are one such run each), "," and "\"" are the two
\* characters csv.writer has to quote.
Absent == <<"<absent>">>
MetaVals == {Absent, <<>>, <<"a">>, <<"a", ",", "a">>}
ItemVals == {Absent, <<"a">>, <<",">>, <<"\"", "a">>}
Metadatas == [{"url", "selector", "attribute", "method"} -> MetaVals]
CsvItems == {[value |-> v] : v \in ItemVals}

\* metadata.get(field) is truthy
MetaSet(metadata, field) == metadata[field] # Absent /\ metadata[field] # <<>>

DigitChars == <<"0", "1", "2", "3", "4", "5", "6", "7", "8", "9">>

\* str(n) as csv.writer writes an int
RECURSIVE IntToStr(_)
IntToStr(n) ==
    IF n < 10 THEN <<DigitChars[n + 1]>>
    ELSE IntToStr(n \div 10) \o <<DigitChars[(n % 10) + 1]>>

\* csv.writer, excel dialect (QUOTE_MINIMAL, doublequote): a field holding
\* the delimiter or the quote character is wrapped in quotes, quotes doubled.
NeedsQuote(cell) == \E i \in DOMAIN cell : cell[i] \in {",", "\""}

RECURSIVE DoubleQuotes(_)
DoubleQuotes(cell) ==
    IF cell = <<>> THEN <<>>
    ELSE IF Head(cell) = "\"" THEN <<"\"", "\"">> \o DoubleQuotes(Tail(cell))
    ELSE <<Head(cell)>> \o DoubleQuotes(Tail(cell))

QuoteField(cell) ==
    IF NeedsQuote(cell) THEN <<"\"">> \o DoubleQuotes(cell) \o <<"\"">>
    ELSE cell

RECURSIVE JoinFields(_)
JoinFields(fields) ==
    IF fields = <<>> THEN <<>>
    ELSE IF Len(fields) = 1 THEN QuoteField(fields[1])
    ELSE QuoteField(fields[1]) \o <<",">> \o JoinFields(Tail(fields))

\* writer.writerow(fields): the line and its terminator
writerow(fields) == JoinFields(fields) \o <<"\r\n">>

\* Lines 277-285
CsvHeaders(metadata) ==
    <<<<"Index">>, <<"Value">>>>
    \o (IF MetaSet(metadata, "url") THEN <<<<"Source URL">>>> ELSE <<>>)
    \o (IF MetaSet(metadata, "selector") THEN <<<<"CSS Selector">>>> ELSE <<>>)
    \o (IF MetaSet(metadata, "attribute") THEN <<<<"Attribute">>>> ELSE <<>>)
    \o (IF MetaSet(metadata, "method") THEN <<<<"Method">>>> ELSE <<>>)

\* Mutant: the method column of a row is guarded by the attribute field.
CsvRow_WrongGuard(i, item, metadata) ==
    <<IntToStr(i + 1), IF item.value = Absent THEN <<>> ELSE item.value>>
    \o (IF MetaSet(metadata, "url") THEN <<metadata["url"]>> ELSE <<>>)
    \o (IF MetaSet(metadata, "selector") THEN <<metadata["selector"]>> ELSE <<>>)
    \o (IF MetaSet(metadata, "attribute") THEN <<metadata["attribute"]>> ELSE <<>>)
    \o (IF MetaSet(metadata, "attribute") THEN <<metadata["method"]>> ELSE <<>>)

\* Lines 291-299: the row of the item at 0-based position i
CsvRow(i, item, metadata) ==
    <<IntToStr(i + 1), IF item.value = Absent THEN <<>> ELSE item.value>>
    \o (IF MetaSet(metadata, "url") THEN <<metadata["url"]>> ELSE <<>>)
    \o (IF MetaSet(metadata, "selector") THEN <<metadata["selector"]>> ELSE <<>>)
    \o (IF MetaSet(metadata, "attribute") THEN <<metadata["attribute"]>> ELSE <<>>)
    \o (IF MetaSet(metadata, "method") THEN <<metadata["method"]>> ELSE <<>>)

\* Lines 290-300: the data rows from position i on
RECURSIVE CsvRows(_, _, _)
CsvRows(i, results, metadata) ==
    IF i >= Len(results) THEN <<>>
    ELSE writerow(CsvRow(i, results[i + 1], metadata))
         \o CsvRows(i + 1, results, metadata)

export_csv(results, metadata) ==
    IF results = <<>>
    THEN [success |-> FALSE, error |-> "No data to export", csv_content |-> <<>>]
    ELSE [success |-> TRUE, error |-> "none",
          csv_content |-> writerow(CsvHeaders(metadata))
                          \o CsvRows(0, results, metadata)]

\* A call's arguments: up to MaxElems result items and a metadata object.
InitCsv ==
    /\ AtRest
    /\ pc = "call"
    /\ \E n \in 0..MaxElems, m \in Metadatas :
          \E r \in [1..n -> CsvItems] :
             fnArgs = [results |-> r, metadata |-> m]
    /\ fnRet = <<>>

CsvCall ==
    /\ pc = "call"
    /\ fnRet' = export_csv(fnArgs.results, fnArgs.metadata)
    /\ pc' = "returned"
    /\ UNCHANGED fnArgs
    /\ UNCHANGED restVars

NextCsv == CsvCall

SpecCsv == InitCsv /\ [][NextCsv]_vars

\* How a CSV reader splits the text into rows of cells (quoted fields,
\* doubled quotes, "\r\n" between rows).
RECURSIVE ReadCsv(_, _, _, _, _)
ReadCsv(rest, cell, row, rows, quoted) ==
    IF rest = <<>> THEN rows
    ELSE LET c == Head(rest) IN
         IF quoted THEN
             IF c = "\"" THEN
                 IF Len(rest) >= 2 /\ rest[2] = "\""
                 THEN ReadCsv(Tail(Tail(rest)), Append(cell, "\""), row, rows, TRUE)
                 ELSE ReadCsv(Tail(rest), cell, row, rows, FALSE)
             ELSE ReadCsv(Tail(rest), Append(cell, c), row, rows, TRUE)
         ELSE
             CASE c = "\"" -> ReadCsv(Tail(rest), cell, row, rows, TRUE)
               [] c = "," -> ReadCsv(Tail(rest), <<>>, Append(row, cell), rows, FALSE)
               [] c = "\r\n" ->
                    ReadCsv(Tail(rest), <<>>, <<>>, Append(rows, Append(row, cell)), FALSE)
               [] OTHER -> ReadCsv(Tail(rest), Append(cell, c), row, rows, FALSE)

CsvTable == ReadCsv(fnRet.csv_content, <<>>, <<>>, <<>>, FALSE)

\* The optional columns in their fixed order.
CsvColumns ==
    <<[field |-> "url", title |-> <<"Source URL">>],
      [field |-> "selector", title |-> <<"CSS Selector">>],
      [field |-> "attribute", title |-> <<"Attribute">>],
      [field |-> "method", title |-> <<"Method">>]>>

ColumnWanted(c) == fnArgs.metadata[c.field] \notin {Absent, <<>>}
WantedColumns == SelectSeq(CsvColumns, ColumnWanted)

\* C9: for a non-empty result list the header is Index, Value and then, in
\* the fixed order Source URL, CSS Selector, Attribute, Method, exactly the
\* columns whose metadata field is present and non-empty; every data row has
\* as many columns as the header and repeats those metadata values verbatim.
C9_CsvHeaderAndRows ==
    (pc = "returned" /\ fnArgs.results # <<>>) =>
        /\ fnRet.success
        /\ Len(CsvTable) = Len(fnArgs.results) + 1
        /\ CsvTable[1] = <<<<"Index">>, <<"Value">>>>
                         \o [i \in 1..Len(WantedColumns) |-> WantedColumns[i].title]
        /\ \A r \in 1..Len(fnArgs.results) :
              /\ Len(CsvTable[r + 1]) = Len(CsvTable[1])
              /\ CsvTable[r + 1][1] = IntToStr(r)
              /\ \A i \in 1..Len(WantedColumns) :
                    CsvTable[r + 1][2 + i] = fnArgs.metadata[WantedColumns[i].field]

C9_Witness ==
    /\ pc = "returned"
    /\ Len(fnArgs.results) = 2
    /\ fnArgs.results[1].value = <<",">>
    /\ fnArgs.metadata["url"] = <<"a", ",", "a">>
    /\ fnArgs.metadata["selector"] = Absent
    /\ fnArgs.metadata["attribute"] = <<>>
    /\ fnArgs.metadata["method"] = Absent
    /\ CsvTable[1] = <<<<"Index">>, <<"Value">>, <<"Source URL">>>>
    /\ Len(CsvTable[2]) = 3 /\ Len(CsvTable[3]) = 3

====
